---------------------------- MODULE Spec2Model ----------------------------
(***************************************************************************)
(* Model of selftest.hpp (BrassHead/selftest): the condition signaler      *)
(* `thrower`, the ASSERT / THROWxxx / CHECKxxx macros, the self-registering *)
(* UnitTest list and the runner runUnitTestsImpl / callUnitTest.           *)
(*                                                                         *)
(* C strings are TLA+ strings; a null char pointer is NULLSTR.  UnitTest   *)
(* objects live at addresses 1..MaxTests (file-scope objects made by       *)
(* TEST_FUNCTION) and LastTestAddr (the runner's local lastTest); the null *)
(* UnitTest pointer is Null.  A test function is identified by the number  *)
(* of its TEST_FUNCTION; the null function pointer is NullFn.              *)
(***************************************************************************)
EXTENDS Integers, Sequences, FiniteSets, TLC

\* ------------------------------------------------------------------ bounds
MaxTests == 2
MaxStmts == 2
MaxRuns == 2

\* --------------------------------------------------------------- constants
Null == 0
NullFn == 0
NULLSTR == "(null)"
time_limit_seconds == 2
SrcFile == "testception.cpp"
SrcLine == 48
LastTestAddr == MaxTests + 1

\* ------------------------------------------------------- error kinds thrown
FailTypes == {"badarg", "badassert", "badselftest", "badunittest", "overlimit"}

\* The direct base class of a thrown type ("none": no base class).
BaseOf(k) ==
    CASE k = "std::invalid_argument" -> "std::logic_error"
      [] k = "selftest_error" -> "std::logic_error"
      [] k = "std::logic_error" -> "std::exception"
      [] k = "over_reasonable_limit" -> "std::runtime_error"
      [] k = "std::runtime_error" -> "std::exception"
      [] OTHER -> "none"

\* catch( const E& ) catches a thrown value of type k: k is E or derives from it.
RECURSIVE Catches(_, _)
Catches(E, k) ==
    IF k = "none" THEN FALSE
    ELSE IF k = E THEN TRUE
    ELSE Catches(E, BaseOf(k))

NoExc == [kind |-> "none", what |-> ""]
Exc(k, w) == [kind |-> k, what |-> w]

\* ------------------------------------------------------------------ thrower
\* std::to_string(lineNum) for the line numbers used.
to_string(n) == ToString(n)

\* Mutant: the predicate text and the function name are appended without
\* testing them for null, and the prefix is written whenever there is a file.
throwerMessageUnguarded(ft, failedPredicate, function, fileName, lineNum) ==
    LET m0 == IF fileName # NULLSTR
              THEN fileName \o ":" \o to_string(lineNum) \o ":0: error: "
              ELSE ""
        m1 == m0 \o (CASE ft = "badarg" -> "Argument test"
                       [] ft = "badassert" -> "Assertion"
                       [] ft = "badselftest" -> "Self test"
                       [] ft = "badunittest" -> "Unit test"
                       [] ft = "overlimit" -> "Reasonable limit"
                       [] OTHER -> "")
        m2 == m1 \o " '" \o failedPredicate \o "'"
        m3 == m2 \o " failed"
        m4 == m3 \o " in " \o function
    IN  m4 \o "."

\* Lines 343-371: the composed message text.
throwerMessage(ft, failedPredicate, function, fileName, lineNum) ==
    LET m0 == IF fileName # NULLSTR /\ lineNum # 0
              THEN fileName \o ":" \o to_string(lineNum) \o ":0: error: "
              ELSE ""
        m1 == m0 \o (CASE ft = "badarg" -> "Argument test"
                       [] ft = "badassert" -> "Assertion"
                       [] ft = "badselftest" -> "Self test"
                       [] ft = "badunittest" -> "Unit test"
                       [] ft = "overlimit" -> "Reasonable limit"
                       [] OTHER -> "")
        m2 == IF failedPredicate # NULLSTR
              THEN m1 \o " '" \o failedPredicate \o "'"
              ELSE m1
        m3 == m2 \o " failed"
        m4 == IF function # NULLSTR THEN m3 \o " in " \o function ELSE m3
    IN  m4 \o "."

\* The outcome of a call: whether it returned normally, the value raised
\* (NoExc when none) and the lines written to std::cerr.
Outcome(ret, e, lines) == [returned |-> ret, exc |-> e, cerr |-> lines]

\* Mutant: the badunittest case prints and falls out of the switch to the
\* return of line 392 (no throw).
throwerRaiseNoThrowOnUnitTest(ft, message) ==
    CASE ft = "badarg" -> Outcome(FALSE, Exc("std::invalid_argument", message), <<>>)
      [] ft = "badassert" -> Outcome(FALSE, Exc("selftest_error", message), <<>>)
      [] ft = "badselftest" -> Outcome(FALSE, Exc("selftest_error", message), <<>>)
      [] ft = "badunittest" -> Outcome(TRUE, NoExc, <<message>>)
      [] ft = "overlimit" -> Outcome(FALSE, Exc("over_reasonable_limit", message), <<>>)
      [] OTHER -> Outcome(TRUE, NoExc, <<>>)

\* Mutant: the switch has no case for badselftest.
throwerRaiseMissingCase(ft, message) ==
    CASE ft = "badarg" -> Outcome(FALSE, Exc("std::invalid_argument", message), <<>>)
      [] ft = "badassert" -> Outcome(FALSE, Exc("selftest_error", message), <<>>)
      [] ft = "badunittest" -> Outcome(FALSE, Exc("terminate_unittest", ""), <<message>>)
      [] ft = "overlimit" -> Outcome(FALSE, Exc("over_reasonable_limit", message), <<>>)
      [] OTHER -> Outcome(TRUE, NoExc, <<>>)

\* Mutant: the type thrown for overlimit depends on the context (a
\* selftest_error when there is no predicate text).
throwerRaiseByContext(ft, message) ==
    CASE ft = "badarg" -> Outcome(FALSE, Exc("std::invalid_argument", message), <<>>)
      [] ft = "badassert" -> Outcome(FALSE, Exc("selftest_error", message), <<>>)
      [] ft = "badselftest" -> Outcome(FALSE, Exc("selftest_error", message), <<>>)
      [] ft = "badunittest" -> Outcome(FALSE, Exc("terminate_unittest", ""), <<message>>)
      [] ft = "overlimit" ->
            IF message = "Reasonable limit failed."
            THEN Outcome(FALSE, Exc("selftest_error", message), <<>>)
            ELSE Outcome(FALSE, Exc("over_reasonable_limit", message), <<>>)
      [] OTHER -> Outcome(TRUE, NoExc, <<>>)

\* Lines 373-392: the raise switch, and the return after it.
throwerRaise(ft, message) ==
    CASE ft = "badarg" -> Outcome(FALSE, Exc("std::invalid_argument", message), <<>>)
      [] ft = "badassert" -> Outcome(FALSE, Exc("selftest_error", message), <<>>)
      [] ft = "badselftest" -> Outcome(FALSE, Exc("selftest_error", message), <<>>)
      [] ft = "badunittest" -> Outcome(FALSE, Exc("terminate_unittest", ""), <<message>>)
      [] ft = "overlimit" -> Outcome(FALSE, Exc("over_reasonable_limit", message), <<>>)
      [] OTHER -> Outcome(TRUE, NoExc, <<>>)

thrower(ft, failedPredicate, function, fileName, lineNum) ==
    throwerRaise(ft, throwerMessage(ft, failedPredicate, function, fileName, lineNum))

\* ------------------------------------------------------------------- macros
Normal == Outcome(TRUE, NoExc, <<>>)

\* ASSERT( X ), lines 211-223; p is the value of X, text is #X.
ASSERT_(cfg, p, text, func) ==
    IF cfg.GOFASTERSTRIPE THEN Normal
    ELSE IF p THEN Normal
    ELSE IF cfg.OBFUSCATETESTS
         THEN thrower("badassert", NULLSTR, NULLSTR, NULLSTR, 0)
         ELSE thrower("badassert", text, func, SrcFile, SrcLine)

\* Mutant: IFASSERTING( X ) is {X;} in every build.
IFASSERTINGAlways(cfg, xOut) == xOut

\* IFASSERTING( X ), lines 213 and 225; xOut is what evaluating X gives.
IFASSERTING(cfg, xOut) ==
    IF cfg.GOFASTERSTRIPE THEN [out |-> Normal, effects |-> 0, elapsed |-> 0]
    ELSE xOut

\* BAD_ARG / TEST_FAIL / OVER_LIMIT, lines 231-248.
THROWxxx(cfg, ft, X, func) ==
    IF cfg.OBFUSCATETESTS
    THEN thrower(ft, NULLSTR, NULLSTR, NULLSTR, 0)
    ELSE thrower(ft, X, func, SrcFile, SrcLine)

BAD_ARG(cfg, X, func) == THROWxxx(cfg, "badarg", X, func)
TEST_FAIL(cfg, X, func) == THROWxxx(cfg, "badselftest", X, func)
OVER_LIMIT(cfg, X, func) == THROWxxx(cfg, "overlimit", X, func)

\* UNITTEST_FAIL( X ), lines 255-257.
UNITTEST_FAIL(X, func) == thrower("badunittest", X, func, SrcFile, SrcLine)

\* CHECKIF( X ), line 259.
CHECKIF(p, text, func) == IF ~p THEN UNITTEST_FAIL(text, func) ELSE Normal

\* CHECKSTREQ( L,R ), lines 260-262; l and r are the values, L and R the texts.
CHECKSTREQ(l, r, L, R, func) ==
    IF l # r
    THEN UNITTEST_FAIL("\n" \o L \o " should equal\n" \o R \o " but\n\"" \o l
                       \o "\" is not\n\"" \o r \o "\"", func)
    ELSE Normal

\* Mutant: the handler is catch(...), which takes any thrown value as expected.
CHECKIFTHROWSCatchAll(xOut, X, E, func) ==
    IF ~xOut.out.returned
    THEN [out |-> Outcome(TRUE, NoExc, xOut.out.cerr),
          effects |-> xOut.effects, elapsed |-> xOut.elapsed]
    ELSE LET f == UNITTEST_FAIL(X \o " should throw " \o E, func)
         IN  [out |-> Outcome(f.returned, f.exc, xOut.out.cerr \o f.cerr),
              effects |-> xOut.effects, elapsed |-> xOut.elapsed]

\* CHECKIFTHROWS( X,E ), lines 263-267; xOut is what evaluating X gives.
CHECKIFTHROWS(xOut, X, E, func) ==
    LET caught_expected == ~xOut.out.returned /\ Catches(E, xOut.out.exc.kind)
    IN  IF ~xOut.out.returned /\ ~caught_expected
        THEN xOut
        ELSE IF ~caught_expected
        THEN LET f == UNITTEST_FAIL(X \o " should throw " \o E, func)
             IN  [out |-> Outcome(f.returned, f.exc, xOut.out.cerr \o f.cerr),
                  effects |-> xOut.effects, elapsed |-> xOut.elapsed]
        ELSE [out |-> Outcome(TRUE, NoExc, xOut.out.cerr),
              effects |-> xOut.effects, elapsed |-> xOut.elapsed]

\* --------------------------------------------------- statements of test bodies
\* An expression of a test body: the operation, a truth value (the condition
\* of ASSERT and CHECKIF), a string (the type thrown by a throw expression,
\* the right-hand value of CHECKSTREQ) and a duration in seconds.
Basic(op, p, k, d) == [op |-> op, p |-> p, k |-> k, d |-> d]
\* A statement: a plain expression, or CHECKIFTHROWS( x, E ) or IFASSERTING( x ).
Stmt(op, E, x) == [op |-> op, E |-> E, x |-> x]
Plain(x) == Stmt("plain", "", x)

BoolText(p) == IF p THEN "true" ELSE "false"

\* #X: the text of an expression as the macros stringify it.
ExprText(b) ==
    CASE b.op = "ASSERT" -> "ASSERT( " \o BoolText(b.p) \o " )"
      [] b.op = "BAD_ARG" -> "BAD_ARG( \"BAD_ARG\" )"
      [] b.op = "TEST_FAIL" -> "TEST_FAIL( \"TEST_FAIL\" )"
      [] b.op = "OVER_LIMIT" -> "OVER_LIMIT( \"OVER_LIMIT\" )"
      [] b.op = "throw" -> "throw " \o b.k
      [] b.op = "CHECKIF" -> "CHECKIF( " \o BoolText(b.p) \o " )"
      [] b.op = "elapse" -> "sleep_for( seconds(" \o ToString(b.d) \o ") )"
      [] OTHER -> b.op

\* What evaluating an expression gives: the outcome, the number of side
\* effects it had on the program's data and the time it took.
EvalBasic(cfg, b, func) ==
    CASE b.op = "effect" -> [out |-> Normal, effects |-> 1, elapsed |-> 0]
      [] b.op = "elapse" -> [out |-> Normal, effects |-> 0, elapsed |-> b.d]
      [] b.op = "throw" ->
            [out |-> Outcome(FALSE, Exc(b.k, "Visible message"), <<>>),
             effects |-> 0, elapsed |-> 0]
      [] b.op = "ASSERT" ->
            [out |-> ASSERT_(cfg, b.p, BoolText(b.p), func),
             effects |-> 0, elapsed |-> 0]
      [] b.op = "BAD_ARG" ->
            [out |-> BAD_ARG(cfg, "BAD_ARG", func), effects |-> 0, elapsed |-> 0]
      [] b.op = "TEST_FAIL" ->
            [out |-> TEST_FAIL(cfg, "TEST_FAIL", func), effects |-> 0, elapsed |-> 0]
      [] b.op = "OVER_LIMIT" ->
            [out |-> OVER_LIMIT(cfg, "OVER_LIMIT", func), effects |-> 0, elapsed |-> 0]
      [] b.op = "CHECKIF" ->
            [out |-> CHECKIF(b.p, BoolText(b.p), func), effects |-> 0, elapsed |-> 0]
      [] b.op = "CHECKSTREQ" ->
            [out |-> CHECKSTREQ("2", b.k, "\"2\"", "fizzbuzz( 2 )", func),
             effects |-> 0, elapsed |-> 0]
      [] OTHER -> [out |-> Normal, effects |-> 0, elapsed |-> 0]

ExecStmt(cfg, s, func) ==
    CASE s.op = "CHECKIFTHROWS" ->
            CHECKIFTHROWS(EvalBasic(cfg, s.x, func), ExprText(s.x), s.E, func)
      [] s.op = "IFASSERTING" -> IFASSERTING(cfg, EvalBasic(cfg, s.x, func))
      [] OTHER -> EvalBasic(cfg, s.x, func)

\* A check of the unit-test surface failed in the statement: the condition
\* of CHECKIF is false, the strings of CHECKSTREQ differ, or the expression
\* of CHECKIFTHROWS raised nothing that catch( const E& ) catches.
CheckFails(cfg, s, func) ==
    CASE s.op = "CHECKIFTHROWS" ->
            LET r == EvalBasic(cfg, s.x, func)
            IN  r.out.returned \/ ~Catches(s.E, r.out.exc.kind)
      [] s.op = "plain" /\ s.x.op = "CHECKIF" -> ~s.x.p
      [] s.op = "plain" /\ s.x.op = "CHECKSTREQ" -> s.x.k # "2"
      [] OTHER -> FALSE

\* -------------------------------------------------------------------- state
VARIABLES
    cfg,          \* the build: [GOFASTERSTRIPE, OBFUSCATETESTS], which macros are defined
    head,         \* static UnitTest *head of the constructor (line 400)
    objs,         \* the UnitTest objects alive: address -> [testfunc_, next_, tfname_]
    pc,           \* where the program is: "main", in runUnitTestsImpl ("reverse",
                  \* "loop", "tally"), in a test function ("body"), unwinding from
                  \* it ("unwind"), or ended by an exception nothing caught
                  \* ("escaped") or by a call through a null function ("crashed")
    newHead, oldHead, tptr, failedTest, rc,   \* locals of runUnitTestsImpl
    elapsed,      \* high_resolution_clock::now() - testStart, in seconds
    exc,          \* the exception in flight (NoExc when none)
    stmtCount,    \* statements of the running test function executed so far
    cerr,         \* the lines written to std::cerr
    effects,      \* history: side effects the running test function has had
                  \* on the program's data
    registered,   \* history: test functions in the order of their registration
    execLog,      \* history: <<"run", n>> when run n begins, <<"begin", f>> and
                  \* <<"end", f>> when test function f is invoked and is left
    checkFailed,  \* history: a check of the running test function has failed
    afterFail,    \* history: statements the running test executed after that
    raised,       \* history: the running test function ended by raising
    caught,       \* history: the exception the handlers of callUnitTest caught
    cerrAtCall,   \* history: lines on std::cerr when the running test was called
    expectFailed, \* history: tests of this run with a cause of failure
    regAtStart,   \* history: per run, how many tests were registered when it began
    results,      \* history: the FailRatio each run returned
    probe,        \* a call under examination (thrower or a statement) ...
    probeOut      \* ... and what it gave

runVars == <<newHead, oldHead, tptr, failedTest, rc>>
testVars == <<elapsed, exc, stmtCount, checkFailed, afterFail, raised, caught,
               cerrAtCall>>
histVars == <<registered, execLog, expectFailed, regAtStart, results>>
probeVars == <<probe, probeOut>>
vars == <<cfg, head, objs, pc, runVars, testVars, cerr, effects, histVars, probeVars>>

FailRatio(f, n) == [numFailedTests |-> f, numTests |-> n]
\* __func__ and #X of TEST_FUNCTION( X ) number f (line 252-254).
FuncName(f) == "t" \o ToString(f)

NoProbe == [what |-> "none"]

\* The builds: each of GOFASTERSTRIPE and OBFUSCATETESTS defined or not.
Builds == [GOFASTERSTRIPE : BOOLEAN, OBFUSCATETESTS : BOOLEAN]

\* The program before any static initializer has run.
InitProgram ==
    /\ head = Null
    /\ objs = <<>>
    /\ pc = "main"
    /\ newHead = Null /\ oldHead = Null /\ tptr = Null
    /\ failedTest = FALSE
    /\ rc = FailRatio(0, 0)
    /\ elapsed = 0
    /\ exc = NoExc
    /\ stmtCount = 0
    /\ cerr = <<>>
    /\ effects = 0
    /\ registered = <<>>
    /\ execLog = <<>>
    /\ checkFailed = FALSE
    /\ afterFail = 0
    /\ raised = FALSE
    /\ caught = NoExc
    /\ cerrAtCall = 0
    /\ expectFailed = 0
    /\ regAtStart = <<>>
    /\ results = <<>>

Init ==
    /\ cfg \in Builds
    /\ InitProgram
    /\ probe = NoProbe
    /\ probeOut = NoProbe

\* Mutant: a test node is linked to the test node constructed last before it
\* (whether or not a run has consumed that one) instead of to head.
CtorObjsLinksNewest(this, tf, tfName) ==
    LET prev == DOMAIN objs \ {this}
    IN  [a \in DOMAIN objs \cup {this} |->
            IF a = this
            THEN [testfunc_ |-> tf,
                  next_ |-> IF tf # NullFn /\ prev # {}
                            THEN CHOOSE p \in prev : \A q \in prev : q <= p
                            ELSE head,
                  tfname_ |-> tfName]
            ELSE objs[a]]

\* Mutant: the constructor leaves next_ null instead of linking to head.
CtorObjsNoLink(this, tf, tfName) ==
    [a \in DOMAIN objs \cup {this} |->
        IF a = this
        THEN [testfunc_ |-> tf, next_ |-> Null, tfname_ |-> tfName]
        ELSE objs[a]]

\* ------------------------------------------------------------- registration
\* UnitTest::UnitTest( tf, tfName ) constructing the object at address this:
\* the objects after it (lines 397-401) ...
CtorObjs(this, tf, tfName) ==
    [a \in DOMAIN objs \cup {this} |->
        IF a = this
        THEN [testfunc_ |-> tf, next_ |-> head, tfname_ |-> tfName]
        ELSE objs[a]]

\* Mutant: the constructor makes every node the head, the null-function one
\* too (no test of tf).
CtorHeadAlways(this, tf) == this

\* Mutant: a constructor that leaves head alone for a null function.
CtorHeadNoReset(this, tf) == IF tf # NullFn THEN this ELSE head

\* ... and the static head after it (lines 402-405).
CtorHead(this, tf) == IF tf # NullFn THEN this ELSE Null

\* TEST_FUNCTION( X ): the file-scope object unittesterX is constructed with
\* the function X and its name (line 253).
Register ==
    /\ pc = "main"
    /\ Len(registered) < MaxTests
    /\ LET f == Len(registered) + 1
       IN  /\ objs' = CtorObjs(f, f, FuncName(f))
           /\ head' = CtorHead(f, f)
           /\ registered' = Append(registered, f)
    /\ UNCHANGED <<cfg, pc, runVars, testVars, cerr, effects, execLog,
                   expectFailed, regAtStart, results, probeVars>>

\* ------------------------------------------------------------------- runner
\* runUnitTestsImpl, lines 455-460: lastTest is constructed with a null
\* function, which hands over the list and resets head.
RunStart ==
    /\ pc = "main"
    /\ Len(results) < MaxRuns
    /\ failedTest' = FALSE
    /\ objs' = CtorObjs(LastTestAddr, NullFn, "Tests complete")
    /\ head' = CtorHead(LastTestAddr, NullFn)
    /\ newHead' = Null
    /\ oldHead' = objs'[LastTestAddr].next_
    /\ tptr' = Null
    /\ pc' = "reverse"
    /\ regAtStart' = Append(regAtStart, Len(registered))
    /\ expectFailed' = 0
    /\ execLog' = Append(execLog, <<"run", Len(results) + 1>>)
    /\ UNCHANGED <<cfg, rc, testVars, cerr, effects, registered, results,
                   probeVars>>

\* Mutant: the retrieved list is taken as it is, without reversing it.
ReverseStepNoReversal ==
    /\ pc = "reverse"
    /\ oldHead # Null
    /\ tptr' = oldHead
    /\ oldHead' = Null
    /\ newHead' = oldHead
    /\ UNCHANGED <<cfg, head, objs, pc, failedTest, rc, testVars, cerr, effects,
                   histVars, probeVars>>

\* Mutant: the visited node is not relinked (tptr->next_ = newHead is missing).
ReverseStepNoRelink ==
    /\ pc = "reverse"
    /\ oldHead # Null
    /\ tptr' = oldHead
    /\ oldHead' = objs[oldHead].next_
    /\ newHead' = oldHead
    /\ UNCHANGED <<cfg, head, objs, pc, failedTest, rc, testVars, cerr, effects,
                   histVars, probeVars>>

\* One turn of the reversal loop, lines 462-469.
ReverseStep ==
    /\ pc = "reverse"
    /\ oldHead # Null
    /\ tptr' = oldHead
    /\ oldHead' = objs[oldHead].next_
    /\ objs' = [objs EXCEPT ![oldHead].next_ = newHead]
    /\ newHead' = oldHead
    /\ UNCHANGED <<cfg, head, pc, failedTest, rc, testVars, cerr, effects,
                   histVars, probeVars>>

\* The reversal loop ends; FailRatio rc {0,0} (line 474).
ReverseDone ==
    /\ pc = "reverse"
    /\ oldHead = Null
    /\ rc' = FailRatio(0, 0)
    /\ pc' = "loop"
    /\ UNCHANGED <<cfg, head, objs, newHead, oldHead, tptr, failedTest, testVars,
                   cerr, effects, histVars, probeVars>>

\* newHead->callUnitTest() up to the call testfunc_() (lines 476, 411-417).
CallUnitTest ==
    /\ pc = "loop"
    /\ newHead # Null
    /\ elapsed' = 0
    /\ stmtCount' = 0
    /\ checkFailed' = FALSE
    /\ afterFail' = 0
    /\ raised' = FALSE
    /\ caught' = NoExc
    /\ cerrAtCall' = Len(cerr)
    /\ IF objs[newHead].testfunc_ = NullFn
       THEN pc' = "crashed" /\ UNCHANGED execLog
       ELSE /\ pc' = "body"
            /\ execLog' = Append(execLog, <<"begin", objs[newHead].testfunc_>>)
    /\ UNCHANGED <<cfg, head, objs, runVars, exc, cerr, effects, registered,
                   expectFailed, regAtStart, results, probeVars>>

\* The thrown types a test body raises directly, and the types E named in
\* CHECKIFTHROWS( X,E ).
RawThrown == {"const char*", "int"}
CaughtTypes == {"std::exception", "std::logic_error", "std::invalid_argument",
                "selftest_error", "std::runtime_error", "over_reasonable_limit"}

\* The expressions and statements test bodies are written with.
Exprs ==
    {Basic("effect", FALSE, "", 0),
     Basic("BAD_ARG", FALSE, "", 0),
     Basic("TEST_FAIL", FALSE, "", 0),
     Basic("OVER_LIMIT", FALSE, "", 0)}
    \cup {Basic("ASSERT", p, "", 0) : p \in BOOLEAN}
    \cup {Basic("CHECKIF", p, "", 0) : p \in BOOLEAN}
    \cup {Basic("CHECKSTREQ", FALSE, r, 0) : r \in {"2", "Fizz"}}
    \cup {Basic("throw", FALSE, k, 0) : k \in RawThrown}
    \cup {Basic("elapse", FALSE, "", d) :
             d \in {time_limit_seconds, time_limit_seconds + 1}}

AllStmts ==
    {Plain(x) : x \in Exprs}
    \cup {Stmt("CHECKIFTHROWS", E, x) : E \in CaughtTypes, x \in Exprs}
    \cup {Stmt("IFASSERTING", "", x) : x \in Exprs}

\* The statements the test functions of the runs are written with: those of
\* testception.cpp and demo.cpp, and CHECKIFTHROWS with an expression that
\* raises nothing, a type derived from E and a type unrelated to E.
BodyStmts ==
    {Plain(Basic("CHECKIF", p, "", 0)) : p \in BOOLEAN}
    \cup {Plain(Basic("CHECKSTREQ", FALSE, "Fizz", 0)),
          Plain(Basic("OVER_LIMIT", FALSE, "", 0)),
          Plain(Basic("effect", FALSE, "", 0)),
          Stmt("CHECKIFTHROWS", "selftest_error", Basic("ASSERT", FALSE, "", 0)),
          Stmt("CHECKIFTHROWS", "std::exception", Basic("BAD_ARG", FALSE, "", 0)),
          Stmt("CHECKIFTHROWS", "std::exception", Basic("effect", FALSE, "", 0)),
          Stmt("CHECKIFTHROWS", "selftest_error", Basic("OVER_LIMIT", FALSE, "", 0))}
    \cup {Plain(Basic("throw", FALSE, k, 0)) : k \in RawThrown}
    \cup {Plain(Basic("elapse", FALSE, "", d)) :
             d \in {time_limit_seconds, time_limit_seconds + 1}}

\* One statement of the running test function (the call of line 417 going on).
BodyStmt ==
    /\ pc = "body"
    /\ stmtCount < MaxStmts
    /\ \E s \in BodyStmts :
         LET f == objs[newHead].testfunc_
             r == ExecStmt(cfg, s, FuncName(f))
         IN  /\ cerr' = cerr \o r.out.cerr
             /\ effects' = effects + r.effects
             /\ elapsed' = elapsed + r.elapsed
             /\ checkFailed' = (checkFailed \/ CheckFails(cfg, s, FuncName(f)))
             /\ afterFail' = afterFail + (IF checkFailed THEN 1 ELSE 0)
             /\ IF r.out.returned
                THEN pc' = "body" /\ exc' = NoExc
                ELSE pc' = "unwind" /\ exc' = r.out.exc
    /\ stmtCount' = stmtCount + 1
    /\ UNCHANGED <<cfg, head, objs, runVars, raised, caught, cerrAtCall, histVars,
                   probeVars>>

\* Mutant: the comparison is >=.
overTimeInclusive(duration) == duration >= time_limit_seconds

\* duration > std::chrono::seconds(time_limit_seconds), line 420.
overTime(duration) == duration > time_limit_seconds

\* Mutant: the report is written but failedTest is not set.
callUnitTestReturnNoMark(tfname, duration) ==
    IF duration > time_limit_seconds
    THEN [failedTest |-> FALSE,
          cerr |-> <<"Unit test " \o tfname \o " not complete within "
                     \o ToString(time_limit_seconds) \o " seconds.">>]
    ELSE [failedTest |-> FALSE, cerr |-> <<>>]

\* callUnitTest after testfunc_() returned, lines 419-425: the value returned
\* and the lines written.
callUnitTestReturn(tfname, duration) ==
    IF overTime(duration)
    THEN [failedTest |-> TRUE,
          cerr |-> <<"Unit test " \o tfname \o " not complete within "
                     \o ToString(time_limit_seconds) \o " seconds.">>]
    ELSE [failedTest |-> FALSE, cerr |-> <<>>]

\* Mutant: there is no catch( ... ) handler.
callUnitTestCatchNoEllipsis(tfname, e) ==
    IF Catches("terminate_unittest", e.kind)
    THEN [caught |-> TRUE, failedTest |-> TRUE, cerr |-> <<>>]
    ELSE IF e.kind = "const char*"
    THEN [caught |-> TRUE, failedTest |-> TRUE,
          cerr |-> <<"Exception thrown during unit test '" \o tfname
                     \o "': \"" \o e.what \o "\".">>]
    ELSE IF Catches("std::exception", e.kind)
    THEN [caught |-> TRUE, failedTest |-> TRUE,
          cerr |-> <<"Exception thrown during unit test '" \o tfname
                     \o "': " \o e.what \o ".">>]
    ELSE [caught |-> FALSE, failedTest |-> FALSE, cerr |-> <<>>]

\* Mutant: the handler for terminate_unittest writes a report of its own.
callUnitTestCatchReportsTwice(tfname, e) ==
    IF Catches("terminate_unittest", e.kind)
    THEN [caught |-> TRUE, failedTest |-> TRUE,
          cerr |-> <<"Unit test " \o tfname \o " failed.">>]
    ELSE IF e.kind = "const char*"
    THEN [caught |-> TRUE, failedTest |-> TRUE,
          cerr |-> <<"Exception thrown during unit test '" \o tfname
                     \o "': \"" \o e.what \o "\".">>]
    ELSE IF Catches("std::exception", e.kind)
    THEN [caught |-> TRUE, failedTest |-> TRUE,
          cerr |-> <<"Exception thrown during unit test '" \o tfname
                     \o "': " \o e.what \o ".">>]
    ELSE [caught |-> TRUE, failedTest |-> TRUE,
          cerr |-> <<"Exception of unknown type thrown during unit test '"
                     \o tfname \o "'.">>]

\* Mutant: there is no handler for const char*, which catch(...) then takes.
callUnitTestCatchNoCharPtr(tfname, e) ==
    IF Catches("terminate_unittest", e.kind)
    THEN [caught |-> TRUE, failedTest |-> TRUE, cerr |-> <<>>]
    ELSE IF Catches("std::exception", e.kind)
    THEN [caught |-> TRUE, failedTest |-> TRUE,
          cerr |-> <<"Exception thrown during unit test '" \o tfname
                     \o "': " \o e.what \o ".">>]
    ELSE [caught |-> TRUE, failedTest |-> TRUE,
          cerr |-> <<"Exception of unknown type thrown during unit test '"
                     \o tfname \o "'.">>]

\* The handlers of callUnitTest, lines 428-450, tried in their order: whether
\* one caught e, the value returned and the lines written.
callUnitTestCatch(tfname, e) ==
    IF Catches("terminate_unittest", e.kind)
    THEN [caught |-> TRUE, failedTest |-> TRUE, cerr |-> <<>>]
    ELSE IF e.kind = "const char*"
    THEN [caught |-> TRUE, failedTest |-> TRUE,
          cerr |-> <<"Exception thrown during unit test '" \o tfname
                     \o "': \"" \o e.what \o "\".">>]
    ELSE IF Catches("std::exception", e.kind)
    THEN [caught |-> TRUE, failedTest |-> TRUE,
          cerr |-> <<"Exception thrown during unit test '" \o tfname
                     \o "': " \o e.what \o ".">>]
    ELSE [caught |-> TRUE, failedTest |-> TRUE,
          cerr |-> <<"Exception of unknown type thrown during unit test '"
                     \o tfname \o "'.">>]

\* The test function returns; callUnitTest checks the time and returns to
\* line 476.
BodyReturn ==
    /\ pc = "body"
    /\ LET r == callUnitTestReturn(objs[newHead].tfname_, elapsed)
       IN  /\ failedTest' = r.failedTest
           /\ cerr' = cerr \o r.cerr
    /\ execLog' = Append(execLog, <<"end", objs[newHead].testfunc_>>)
    /\ pc' = "tally"
    /\ UNCHANGED <<cfg, head, objs, newHead, oldHead, tptr, rc, testVars, effects,
                   registered, expectFailed, regAtStart, results, probeVars>>

\* The exception leaving the test function meets the handlers of callUnitTest.
Catch ==
    /\ pc = "unwind"
    /\ LET r == callUnitTestCatch(objs[newHead].tfname_, exc)
       IN  IF r.caught
           THEN /\ failedTest' = r.failedTest
                /\ cerr' = cerr \o r.cerr
                /\ exc' = NoExc
                /\ pc' = "tally"
           ELSE /\ pc' = "escaped"
                /\ UNCHANGED <<failedTest, cerr, exc>>
    /\ raised' = TRUE
    /\ caught' = exc
    /\ execLog' = Append(execLog, <<"end", objs[newHead].testfunc_>>)
    /\ UNCHANGED <<cfg, head, objs, newHead, oldHead, tptr, rc, elapsed, stmtCount,
                   checkFailed, afterFail, cerrAtCall, effects, registered,
                   expectFailed, regAtStart, results, probeVars>>

\* Mutant: rc.numFailedTests is incremented once for each cause of failure
\* (an exception raised, the time limit exceeded).
TallyPerCause ==
    /\ pc = "tally"
    /\ rc' = FailRatio(rc.numFailedTests + (IF raised THEN 1 ELSE 0)
                          + (IF elapsed > time_limit_seconds THEN 1 ELSE 0),
                       rc.numTests + 1)
    /\ newHead' = objs[newHead].next_
    /\ expectFailed' = expectFailed +
          (IF checkFailed \/ raised \/ elapsed > time_limit_seconds
           THEN 1 ELSE 0)
    /\ raised' = FALSE
    /\ caught' = NoExc
    /\ cerrAtCall' = 0
    /\ elapsed' = 0
    /\ stmtCount' = 0
    /\ checkFailed' = FALSE
    /\ afterFail' = 0
    /\ effects' = 0
    /\ pc' = "loop"
    /\ UNCHANGED <<cfg, head, objs, oldHead, tptr, failedTest, exc, cerr,
                   registered, execLog, regAtStart, results, probeVars>>

\* Mutant: ++rc.numTests sits in the else branch of if (failedTest).
TallyCountsPassedOnly ==
    /\ pc = "tally"
    /\ rc' = FailRatio(rc.numFailedTests + (IF failedTest THEN 1 ELSE 0),
                       rc.numTests + (IF failedTest THEN 0 ELSE 1))
    /\ newHead' = objs[newHead].next_
    /\ expectFailed' = expectFailed +
          (IF checkFailed \/ raised \/ elapsed > time_limit_seconds
           THEN 1 ELSE 0)
    /\ raised' = FALSE
    /\ caught' = NoExc
    /\ cerrAtCall' = 0
    /\ elapsed' = 0
    /\ stmtCount' = 0
    /\ checkFailed' = FALSE
    /\ afterFail' = 0
    /\ effects' = 0
    /\ pc' = "loop"
    /\ UNCHANGED <<cfg, head, objs, oldHead, tptr, failedTest, exc, cerr,
                   registered, execLog, regAtStart, results, probeVars>>

\* Lines 477-481: the tally, and the step to the next test.
Tally ==
    /\ pc = "tally"
    /\ rc' = FailRatio(rc.numFailedTests + (IF failedTest THEN 1 ELSE 0),
                       rc.numTests + 1)
    /\ newHead' = objs[newHead].next_
    /\ expectFailed' = expectFailed +
          (IF checkFailed \/ raised \/ elapsed > time_limit_seconds
           THEN 1 ELSE 0)
    /\ raised' = FALSE
    /\ caught' = NoExc
    /\ cerrAtCall' = 0
    /\ elapsed' = 0
    /\ stmtCount' = 0
    /\ checkFailed' = FALSE
    /\ afterFail' = 0
    /\ effects' = 0
    /\ pc' = "loop"
    /\ UNCHANGED <<cfg, head, objs, oldHead, tptr, failedTest, exc, cerr,
                   registered, execLog, regAtStart, results, probeVars>>

\* return rc (line 485); lastTest and the other locals go out of scope.
RunReturn ==
    /\ pc = "loop"
    /\ newHead = Null
    /\ results' = Append(results, rc)
    /\ objs' = [a \in DOMAIN objs \ {LastTestAddr} |-> objs[a]]
    /\ tptr' = Null
    /\ failedTest' = FALSE
    /\ rc' = FailRatio(0, 0)
    /\ pc' = "main"
    /\ UNCHANGED <<cfg, head, newHead, oldHead, testVars, cerr, effects,
                   registered, execLog, expectFailed, regAtStart, probeVars>>

Next ==
    \/ Register
    \/ RunStart
    \/ ReverseStep
    \/ ReverseDone
    \/ CallUnitTest
    \/ BodyStmt
    \/ BodyReturn
    \/ Catch
    \/ Tally
    \/ RunReturn

Spec == Init /\ [][Next]_vars

\* ------------------------------------------------------ thrower examined alone
\* The arguments thrower is called with: each failure kind, each context
\* argument present or absent (a null pointer, line 0).
ThrowerCalls ==
    [what : {"thrower"}, ft : FailTypes,
     failedPredicate : {NULLSTR, "x>0"},
     function : {NULLSTR, "fizzbuzz"},
     fileName : {NULLSTR, SrcFile},
     lineNum : {0, 7, SrcLine}]

\* The builds thrower is examined in: with and without TRACETHROWS defined
\* before the header is included (testception.cpp, line 9).
ThrowerBuilds ==
    [GOFASTERSTRIPE : {FALSE}, OBFUSCATETESTS : {FALSE}, TRACETHROWS : BOOLEAN]

InitThrower ==
    /\ cfg \in ThrowerBuilds
    /\ InitProgram
    /\ probe \in ThrowerCalls
    /\ probeOut = NoProbe

ThrowerCall ==
    /\ probe.what = "thrower"
    /\ probeOut = NoProbe
    /\ probeOut' = [what |-> "thrower",
                    out |-> thrower(probe.ft, probe.failedPredicate, probe.function,
                                    probe.fileName, probe.lineNum)]
    /\ UNCHANGED <<cfg, head, objs, pc, runVars, testVars, cerr, effects,
                   histVars, probe>>

NextThrower == ThrowerCall

SpecThrower == InitThrower /\ [][NextThrower]_vars

\* ---------------------------------------------------- a statement examined alone
\* What callUnitTest returns for a test function whose body is the statement
\* alone ("escaped" if what it raises passes every handler).
Verdict(c, s, f) ==
    LET r == ExecStmt(c, s, FuncName(f))
    IN  IF r.out.returned
        THEN IF callUnitTestReturn(FuncName(f), r.elapsed).failedTest
             THEN "failed" ELSE "passed"
        ELSE IF callUnitTestCatch(FuncName(f), r.out.exc).caught
             THEN "failed" ELSE "escaped"

InitStmt ==
    /\ cfg \in Builds
    /\ InitProgram
    /\ probe \in [what : {"stmt"}, s : AllStmts]
    /\ probeOut = NoProbe

StmtCall ==
    /\ probe.what = "stmt"
    /\ probeOut = NoProbe
    /\ probeOut' = [what |-> "stmt",
                    res |-> ExecStmt(cfg, probe.s, FuncName(1)),
                    verdict |-> Verdict(cfg, probe.s, 1)]
    /\ UNCHANGED <<cfg, head, objs, pc, runVars, testVars, cerr, effects,
                   histVars, probe>>

NextStmt == StmtCall

SpecStmt == InitStmt /\ [][NextStmt]_vars

\* ------------------------------------------------------------------- claims
\* The events of run n in execLog: from after its <<"run", n>> to the next
\* run's mark (or the end of the log).
RunMark(n) == CHOOSE i \in DOMAIN execLog : execLog[i] = <<"run", n>>
RunEvents(n) ==
    LET lo == RunMark(n) + 1
        hi == IF n < Len(regAtStart) THEN RunMark(n + 1) - 1 ELSE Len(execLog)
    IN  SubSeq(execLog, lo, hi)
IsBegin(e) == e[1] = "begin"
\* The test functions run n invoked, in the order of their invocation.
Invoked(n) ==
    LET b == SelectSeq(RunEvents(n), IsBegin)
    IN  [i \in DOMAIN b |-> b[i][2]]
\* The test functions registered and not yet handed to a run when run n began,
\* in the order of their registration.
Pending(n) ==
    SubSeq(registered, (IF n = 1 THEN 0 ELSE regAtStart[n - 1]) + 1, regAtStart[n])
IsPrefixOf(a, b) == Len(a) <= Len(b) /\ a = SubSeq(b, 1, Len(a))

\* C1: a call of runUnitTests invokes the test functions registered before
\* it (and not yet run) in exactly the order of their registration: what it
\* has invoked so far is a prefix of them, all of them once it has returned,
\* and the body of a test has been left before the next one is invoked.
C1_DeclarationOrder ==
    \A n \in DOMAIN regAtStart :
        LET ev == RunEvents(n)
        IN  /\ IsPrefixOf(Invoked(n), Pending(n))
            /\ n <= Len(results) => Invoked(n) = Pending(n)
            /\ \A i \in DOMAIN ev :
                  /\ IsBegin(ev[i]) <=> i % 2 = 1
                  /\ i % 2 = 0 => ev[i] = <<"end", ev[i - 1][2]>>

\* C1 witness: a run that returned after invoking two test functions.
C1_Witness ==
    /\ Len(results) >= 1
    /\ Len(Invoked(1)) >= 2

\* C2: the first call of runUnitTests returns numTests equal to the number
\* of tests registered before it, whatever their outcomes.
C2_TotalCount ==
    Len(results) >= 1 => results[1].numTests = regAtStart[1]

\* C2 witness: the first run returned with two registered tests, one of
\* them failed.
C2_Witness ==
    /\ Len(results) >= 1
    /\ regAtStart[1] = 2
    /\ results[1].numFailedTests = 1

\* C3: nothing a test body raises leaves callUnitTest (no exception is in
\* flight outside the test function and its unwinding, and none escapes the
\* runner), and every test registered after it is still invoked: a run that
\* returned has invoked every pending test.
C3_Containment ==
    /\ pc # "escaped"
    /\ exc # NoExc => pc = "unwind"
    /\ \A n \in DOMAIN results : Len(Invoked(n)) = Len(Pending(n))

\* C3 witness: the first test function raised an int, which the runner
\* reported, and the second one has been invoked after it.
C3_Witness ==
    /\ \E i \in DOMAIN cerr :
          cerr[i] = "Exception of unknown type thrown during unit test 't1'."
    /\ \E i \in DOMAIN execLog : execLog[i] = <<"begin", 2>>

\* C4: numFailedTests is the number of executed tests with a cause of
\* failure (a failed check, a raised error, more than 2 seconds elapsed),
\* during the run and in the value returned.
C4_FailedCount ==
    /\ pc \in {"loop", "body", "unwind", "tally"} => rc.numFailedTests = expectFailed
    /\ pc = "main" /\ Len(results) >= 1 =>
          results[Len(results)].numFailedTests = expectFailed

\* C4 witness: a run returned one failure out of two tests, the failure
\* being a test that took too long.
C4_Witness ==
    /\ pc = "main"
    /\ Len(results) = 1
    /\ results[1] = FailRatio(1, 2)
    /\ cerr = <<"Unit test t2 not complete within 2 seconds.">>

\* C5: once a check fails in a test body no later statement of that body is
\* executed: the failing statement is its last, and the body is being left
\* or has been left.
C5_StopsAtFirstFailure ==
    /\ afterFail = 0
    /\ checkFailed => pc \in {"unwind", "tally"}

\* C5 witness: a check failed in the first statement of a body that could
\* have gone on, and the runner is about to tally the test as failed.
C5_Witness ==
    /\ pc = "tally"
    /\ checkFailed
    /\ failedTest
    /\ stmtCount < MaxStmts

\* The thrown types that derive from another, by the class declarations of
\* the header and of <stdexcept>: <<derived, base>>.
Derivations ==
    {<<"std::logic_error", "std::exception">>,
     <<"std::runtime_error", "std::exception">>,
     <<"std::invalid_argument", "std::logic_error">>,
     <<"std::invalid_argument", "std::exception">>,
     <<"selftest_error", "std::logic_error">>,
     <<"selftest_error", "std::exception">>,
     <<"over_reasonable_limit", "std::runtime_error">>,
     <<"over_reasonable_limit", "std::exception">>}

\* For an examined statement CHECKIFTHROWS( x,E ): the type x raises ("none"
\* when it raises nothing), whether the check passed (the statement ended
\* normally) and whether the test was failed.
ProbeIsCheckThrows == probeOut.what = "stmt" /\ probe.s.op = "CHECKIFTHROWS"
ProbeRaised == EvalBasic(cfg, probe.s.x, FuncName(1)).out.exc.kind
ProbePasses == probeOut.res.out.returned

\* C6 as claimed: CHECKIFTHROWS( x,E ) passes iff x raises exactly the type
\* E, and fails the test otherwise (also for a type derived from E).
C6_AsClaimed ==
    ProbeIsCheckThrows =>
        /\ ProbePasses <=> ProbeRaised = probe.s.E
        /\ ~ProbePasses => probeOut.verdict = "failed"

\* C6 amended: CHECKIFTHROWS( x,E ) passes iff x raises the type E or a type
\* derived from E; it fails the test if x raises nothing or a type that is
\* neither.
C6_PassesOnTypeOrDerived ==
    ProbeIsCheckThrows =>
        /\ ProbePasses <=>
              \/ ProbeRaised = probe.s.E
              \/ <<ProbeRaised, probe.s.E>> \in Derivations
        /\ ProbePasses => probeOut.verdict = "passed"
        /\ ~ProbePasses => probeOut.verdict = "failed"

\* C6 witness: CHECKIFTHROWS( BAD_ARG(..), std::exception ) passed, on the
\* std::invalid_argument that BAD_ARG raised.
C6_Witness ==
    /\ ProbeIsCheckThrows
    /\ probe.s.E = "std::exception"
    /\ probe.s.x.op = "BAD_ARG"
    /\ ProbeRaised = "std::invalid_argument"
    /\ ProbePasses

\* C7: thrower never returns normally: for each failure kind and each
\* combination of present and absent context it ends by raising.
C7_NeverReturns ==
    probeOut.what = "thrower" =>
        /\ ~probeOut.out.returned
        /\ probeOut.out.exc # NoExc

\* C7 witness: thrower called for overlimit with every context argument
\* absent has raised.
C7_Witness ==
    /\ probeOut.what = "thrower"
    /\ probe.ft = "overlimit"
    /\ probe.failedPredicate = NULLSTR /\ probe.function = NULLSTR
    /\ probe.fileName = NULLSTR /\ probe.lineNum = 0
    /\ probeOut.out.exc.kind = "over_reasonable_limit"

\* The type the header documents for each failure kind.
KindFor(ft) ==
    CASE ft = "badarg" -> "std::invalid_argument"
      [] ft = "badassert" -> "selftest_error"
      [] ft = "badselftest" -> "selftest_error"
      [] ft = "overlimit" -> "over_reasonable_limit"
      [] ft = "badunittest" -> "terminate_unittest"

\* C8: the type thrower raises is determined by the failure kind alone,
\* whatever the context arguments, and terminate_unittest is caught by no
\* handler for another of these types or their bases, nor do its handlers
\* catch any of them.
C8_KindByFailType ==
    probeOut.what = "thrower" =>
        LET k == probeOut.out.exc.kind
        IN  /\ k = KindFor(probe.ft)
            /\ probe.ft = "badunittest" =>
                  \A E \in CaughtTypes : ~Catches(E, k)
            /\ probe.ft # "badunittest" => ~Catches("terminate_unittest", k)

\* C8 witness: thrower called for badunittest with its context present
\* raised terminate_unittest.
C8_Witness ==
    /\ probeOut.what = "thrower"
    /\ probe.ft = "badunittest"
    /\ probe.failedPredicate # NULLSTR /\ probe.fileName # NULLSTR
    /\ probeOut.out.exc.kind = "terminate_unittest"

\* C9: when a test body has returned normally, the test is failed exactly
\* if more than 2 seconds elapsed, with the report as the last line written;
\* the time is looked at only then, and the test counts once: the tests
\* tallied are the tests invoked (less the one running).
C9_TimeoutAfterTheFact ==
    /\ pc = "tally" /\ ~raised =>
          /\ failedTest <=> elapsed > time_limit_seconds
          /\ elapsed > time_limit_seconds =>
                /\ cerr # <<>>
                /\ cerr[Len(cerr)] =
                      "Unit test " \o objs[newHead].tfname_
                      \o " not complete within 2 seconds."
    /\ pc \in {"loop", "body", "unwind", "tally"} =>
          rc.numTests + (IF pc = "loop" THEN 0 ELSE 1)
             = Len(Invoked(Len(regAtStart)))

\* C9 witness: a body that went on after 3 seconds had elapsed returned
\* after 6, and the test is failed.
C9_Witness ==
    /\ pc = "tally"
    /\ ~raised
    /\ elapsed = 2 * (time_limit_seconds + 1)
    /\ failedTest

\* What a statement that expands to nothing gives.
Nothing == [out |-> Outcome(TRUE, NoExc, <<>>), effects |-> 0, elapsed |-> 0]

\* C10: in a build with assertions ASSERT( p ) raises selftest_error exactly
\* when p is false and does nothing when p is true; in a build with
\* GOFASTERSTRIPE ASSERT( false ) does not raise and IFASSERTING( x ) does
\* not evaluate x.
C10_AssertSwitch ==
    probeOut.what = "stmt" =>
        /\ probe.s.op = "plain" /\ probe.s.x.op = "ASSERT" =>
              IF ~cfg.GOFASTERSTRIPE /\ ~probe.s.x.p
              THEN /\ ~probeOut.res.out.returned
                   /\ probeOut.res.out.exc.kind = "selftest_error"
              ELSE probeOut.res = Nothing
        /\ probe.s.op = "IFASSERTING" /\ cfg.GOFASTERSTRIPE =>
              probeOut.res = Nothing

\* C10 witness: in a build with GOFASTERSTRIPE, IFASSERTING of a statement
\* with a side effect was executed and the side effect did not occur.
C10_Witness ==
    /\ cfg.GOFASTERSTRIPE
    /\ probeOut.what = "stmt"
    /\ probe.s = Stmt("IFASSERTING", "", Basic("effect", FALSE, "", 0))
    /\ probeOut.res.effects = 0

\* The nodes reached from address a by following next_, in the order reached;
\* at most fuel of them, so that a cycle shows as a repeated node.
RECURSIVE Chain(_, _)
Chain(a, fuel) ==
    IF a = Null \/ fuel = 0 \/ a \notin DOMAIN objs
    THEN <<>>
    ELSE <<a>> \o Chain(objs[a].next_, fuel - 1)
\* More nodes than can exist, for the walks below.
Fuel == LastTestAddr + 2

\* C11: runUnitTests consumes the registry: a call before which nothing was
\* registered since the preceding call finds an empty list (nothing to
\* reverse, head null), invokes no test function and returns
\* {numFailedTests: 0, numTests: 0}.
C11_RegistryConsumed ==
    \A n \in DOMAIN regAtStart :
        n >= 2 /\ regAtStart[n] = regAtStart[n - 1] =>
            /\ Invoked(n) = <<>>
            /\ n = Len(regAtStart) /\ pc # "main" =>
                  /\ head = Null
                  /\ oldHead = Null
                  /\ newHead = Null
                  /\ objs[LastTestAddr].next_ = Null
            /\ n <= Len(results) => results[n] = FailRatio(0, 0)

\* C11 witness: a first call ran two tests, and a second call with nothing
\* registered in between has returned.
C11_Witness ==
    /\ Len(results) = 2
    /\ results[1].numTests = 2
    /\ regAtStart[2] = regAtStart[1]
    /\ results[2] = FailRatio(0, 0)

\* C12 as claimed: in a build with the tracing switch on, thrower called for
\* badarg, badassert or overlimit writes the composed message to std::cerr
\* before raising; with the switch off it raises without writing.
C12_AsClaimed ==
    probeOut.what = "thrower" /\ probe.ft \in {"badarg", "badassert", "overlimit"} =>
        LET message == throwerMessage(probe.ft, probe.failedPredicate,
                                      probe.function, probe.fileName, probe.lineNum)
        IN  /\ probeOut.out.exc = Exc(KindFor(probe.ft), message)
            /\ cfg.TRACETHROWS => probeOut.out.cerr = <<message>>
            /\ ~cfg.TRACETHROWS => probeOut.out.cerr = <<>>

\* The condition texts the failing checks of the test bodies hand to
\* UNITTEST_FAIL.
FailedCheckTexts ==
    {"false",
     "\n\"2\" should equal\nfizzbuzz( 2 ) but\n\"2\" is not\n\"Fizz\"",
     "ASSERT( false ) should throw selftest_error",
     "effect should throw std::exception"}
\* The line thrower writes for a failed check with condition text t in the
\* running test function.
CheckLine(t) ==
    "testception.cpp:48:0: error: Unit test '" \o t \o "' failed in "
    \o objs[newHead].tfname_ \o "."
\* The lines written to std::cerr since the running test was called.
LinesOfTest == SubSeq(cerr, cerrAtCall + 1, Len(cerr))

\* C13: when a check fails, the one line naming the condition text and the
\* test function is on std::cerr while terminate_unittest is in flight (it
\* was written before the raise), and the runner that caught the signal has
\* marked the test failed and written nothing more: the test has produced
\* exactly that one line.
C13_OneLinePerFailedCheck ==
    /\ pc = "unwind" /\ exc.kind = "terminate_unittest" =>
          /\ Len(LinesOfTest) = 1
          /\ \E t \in FailedCheckTexts : LinesOfTest[1] = CheckLine(t)
    /\ pc = "tally" /\ caught.kind = "terminate_unittest" =>
          /\ failedTest
          /\ Len(LinesOfTest) = 1
          /\ \E t \in FailedCheckTexts : LinesOfTest[1] = CheckLine(t)

\* C13 witness: the second test of a run failed by CHECKIF( false ) after an
\* earlier statement, the first test having written a line of its own; the
\* runner has caught the signal.
C13_Witness ==
    /\ pc = "tally"
    /\ caught.kind = "terminate_unittest"
    /\ cerrAtCall = 1
    /\ stmtCount = 2
    /\ LinesOfTest = <<CheckLine("false")>>
    /\ objs[newHead].tfname_ = "t2"

\* The message a call of thrower left behind: the line on std::cerr for
\* badunittest, the what() of the exception raised for the other kinds.
ProbeMessage ==
    IF probe.ft = "badunittest"
    THEN probeOut.out.cerr[1]
    ELSE probeOut.out.exc.what
\* The label the spec gives for each failure kind.
LabelFor(ft) ==
    CASE ft = "badarg" -> "Argument test"
      [] ft = "badassert" -> "Assertion"
      [] ft = "badselftest" -> "Self test"
      [] ft = "badunittest" -> "Unit test"
      [] ft = "overlimit" -> "Reasonable limit"

\* C14: for every kind and every combination of present and absent context
\* the message is '<file>:<line>:0: error: ' (only with a file and a line),
\* the kind label, " '<predicate>'" (only with a predicate text), ' failed',
\* ' in <function>' (only with a function name) and '.', with nothing for an
\* absent item.
C14_MessageFormat ==
    probeOut.what = "thrower" =>
        /\ probe.ft = "badunittest" => Len(probeOut.out.cerr) = 1
        /\ ProbeMessage =
              (IF probe.fileName # NULLSTR /\ probe.lineNum # 0
               THEN probe.fileName \o ":" \o ToString(probe.lineNum) \o ":0: error: "
               ELSE "")
              \o LabelFor(probe.ft)
              \o (IF probe.failedPredicate # NULLSTR
                  THEN " '" \o probe.failedPredicate \o "'" ELSE "")
              \o " failed"
              \o (IF probe.function # NULLSTR
                  THEN " in " \o probe.function ELSE "")
              \o "."

\* C14 witness: an assertion failure with a file but no line and no function
\* name gave a message without prefix and without ' in '.
C14_Witness ==
    /\ probeOut.what = "thrower"
    /\ probe.ft = "badassert"
    /\ probe.fileName = SrcFile /\ probe.lineNum = 0
    /\ probe.failedPredicate = "x>0" /\ probe.function = NULLSTR
    /\ ProbeMessage = "Assertion 'x>0' failed."

\* The thrown value is of std::exception or of a type derived from it.
IsStdException(k) == k = "std::exception" \/ <<k, "std::exception">> \in Derivations

\* C15: when a test body raised something other than terminate_unittest the
\* runner has marked the test failed and the test has produced exactly one
\* line, which names the test and is chosen by what was raised: the what()
\* text for a std::exception subtype, the text in double quotes for a
\* const char*, the unknown-type report for anything else; the run goes on,
\* so a run that returned has tallied every pending test.
C15_ReportByRaisedType ==
    /\ pc = "tally" /\ caught.kind \notin {"none", "terminate_unittest"} =>
          LET name == objs[newHead].tfname_
          IN  /\ failedTest
              /\ Len(LinesOfTest) = 1
              /\ IsStdException(caught.kind) =>
                    LinesOfTest[1] = "Exception thrown during unit test '" \o name
                                     \o "': " \o caught.what \o "."
              /\ caught.kind = "const char*" =>
                    LinesOfTest[1] = "Exception thrown during unit test '" \o name
                                     \o "': \"" \o caught.what \o "\"."
              /\ ~IsStdException(caught.kind) /\ caught.kind # "const char*" =>
                    LinesOfTest[1] = "Exception of unknown type thrown during unit test '"
                                     \o name \o "'."
    /\ pc # "escaped"
    /\ \A n \in DOMAIN results : results[n].numTests = Len(Pending(n))

\* C15 witness: the first test raised an over_reasonable_limit and the
\* second a const char*; each was reported in its own form and the run
\* returned two failures out of two.
C15_Witness ==
    /\ Len(results) = 1
    /\ results[1] = FailRatio(2, 2)
    /\ cerr = <<"Exception thrown during unit test 't1': testception.cpp:48:0: error: Reasonable limit 'OVER_LIMIT' failed in t1..",
                "Exception thrown during unit test 't2': \"Visible message\".">>

\* The counters are in range: 0 <= numFailedTests <= numTests.
InRange(r) == 0 <= r.numFailedTests /\ r.numFailedTests <= r.numTests

\* C16: at every point of a run and in every returned result
\* 0 <= numFailedTests <= numTests; the step that tallies an executed test
\* adds exactly 1 to numTests and 0 or 1 to numFailedTests, whatever the
\* causes of its failure, and no other step of the test loop changes them.
C16_CountersInRange ==
    /\ [](InRange(rc) /\ \A n \in DOMAIN results : InRange(results[n]))
    /\ [][/\ pc = "tally" =>
                /\ rc'.numTests = rc.numTests + 1
                /\ rc'.numFailedTests - rc.numFailedTests \in {0, 1}
          /\ pc \in {"loop", "body", "unwind"} /\ pc' # "main" => rc' = rc
          /\ pc = "loop" /\ pc' = "main" => results' = Append(results, rc)]_vars

\* C16 witness: the first test of a run has been tallied as failed, and the
\* second, about to be tallied, has several causes of failure at once: a
\* false condition checked (so an error raised) after more than 2 seconds.
C16_Witness ==
    /\ pc = "tally"
    /\ rc = FailRatio(1, 1)
    /\ checkFailed /\ raised /\ elapsed > time_limit_seconds
    /\ failedTest

\* A sequence in reverse order.
Rev(s) == [i \in 1..Len(s) |-> s[Len(s) + 1 - i]]
\* The test functions of the nodes reached from address a.
FuncsFrom(a) ==
    LET c == Chain(a, Fuel)
    IN  [i \in DOMAIN c |-> objs[c[i]].testfunc_]
\* The test functions registered since the sentinel was last constructed, in
\* the order of their registration.
SinceSentinel ==
    SubSeq(registered,
           (IF regAtStart = <<>> THEN 0 ELSE regAtStart[Len(regAtStart)]) + 1,
           Len(registered))

\* C17: following next_ from head reaches, in reverse order of registration
\* and each once, exactly the tests registered since the sentinel was last
\* constructed; registering a test makes its node the head, linked to the
\* previous head, and changes no other node; constructing the sentinel links
\* it to the previous head, changes no other node and sets head to null.
C17_RegistryChain ==
    /\ [](FuncsFrom(head) = Rev(SinceSentinel))
    /\ [][/\ registered' # registered =>
                /\ head' \notin DOMAIN objs
                /\ objs'[head'].testfunc_ = registered'[Len(registered')]
                /\ objs'[head'].next_ = head
                /\ DOMAIN objs' = DOMAIN objs \cup {head'}
                /\ \A a \in DOMAIN objs : objs'[a] = objs[a]
          /\ regAtStart' # regAtStart =>
                /\ LastTestAddr \notin DOMAIN objs
                /\ objs'[LastTestAddr].testfunc_ = NullFn
                /\ objs'[LastTestAddr].next_ = head
                /\ DOMAIN objs' = DOMAIN objs \cup {LastTestAddr}
                /\ \A a \in DOMAIN objs : objs'[a] = objs[a]
                /\ head' = Null]_vars

\* C17 witness: two tests registered and no run yet: head is the second,
\* linked to the first, which ends the list.
C17_Witness ==
    /\ regAtStart = <<>>
    /\ registered = <<1, 2>>
    /\ FuncsFrom(head) = <<2, 1>>
    /\ objs[head].next_ # Null
    /\ objs[objs[head].next_].next_ = Null

\* The walk from address a ends at a null next_ (not at a node that is gone,
\* nor by running out of fuel on a cycle).
EndsInNull(a) ==
    LET c == Chain(a, Fuel)
    IN  IF c = <<>> THEN a = Null
        ELSE Len(c) < Fuel /\ objs[c[Len(c)]].next_ = Null
\* The list the running call retrieved from the sentinel: the tests pending
\* at its start, newest first.
Retrieved == Rev(Pending(Len(regAtStart)))

\* C18: while the reversal goes on, the nodes already visited, in reverse
\* order of their visit, followed by the nodes still to visit are exactly the
\* retrieved list; each turn visits the first node still to visit and moves
\* that one node, so the loop ends after as many turns as there are nodes;
\* what it leaves is a null-terminated list of the same nodes, each once, in
\* reverse order; and the reversal is entered only at the start of a run.
C18_Reversal ==
    /\ [](pc = "reverse" =>
             /\ Rev(FuncsFrom(newHead)) \o FuncsFrom(oldHead) = Retrieved
             /\ EndsInNull(newHead) /\ EndsInNull(oldHead))
    /\ [](pc = "loop" /\ rc.numTests = 0 =>
             /\ FuncsFrom(newHead) = Rev(Retrieved)
             /\ EndsInNull(newHead)
             /\ oldHead = Null)
    /\ [][/\ pc = "reverse" /\ pc' = "reverse" =>
                /\ tptr' = oldHead
                /\ newHead' = oldHead
                /\ Len(FuncsFrom(oldHead))' = Len(FuncsFrom(oldHead)) - 1
                /\ Len(FuncsFrom(newHead))' = Len(FuncsFrom(newHead)) + 1
          /\ pc # "reverse" /\ pc' = "reverse" =>
                pc = "main" /\ regAtStart' # regAtStart
          /\ pc = "reverse" /\ pc' # "reverse" =>
                pc' = "loop" /\ oldHead = Null /\ newHead' = newHead]_vars

\* C18 witness: a list of two nodes, retrieved newest first, has been
\* reversed: the test loop is about to start with the first registered test,
\* linked to the second, which ends the list.
C18_Witness ==
    /\ pc = "loop"
    /\ rc.numTests = 0
    /\ Retrieved = <<2, 1>>
    /\ FuncsFrom(newHead) = <<1, 2>>
    /\ objs[objs[newHead].next_].next_ = Null

\* The positions of the log at which test function f was invoked.
BeginsOf(f) == {i \in DOMAIN execLog : execLog[i] = <<"begin", f>>}
\* The run that was going on at position i of the log.
RunAt(i) ==
    CHOOSE n \in DOMAIN regAtStart :
        /\ RunMark(n) < i
        /\ n < Len(regAtStart) => i < RunMark(n + 1)
\* The position of test function f in the order of registration.
RegIndex(f) == CHOOSE i \in DOMAIN registered : registered[i] = f

\* C19: over any interleaving of registrations and calls of runUnitTests, a
\* test function is invoked at most once in all; it is invoked by the first
\* call that follows its registration, and that call, once it has returned,
\* has invoked exactly the tests registered since the call before it, in the
\* order of their registration.
C19_ExecutedOnce ==
    /\ \A f \in 1..Len(registered) :
          /\ Cardinality(BeginsOf(f)) <= 1
          /\ \A i \in BeginsOf(f) :
                LET n == RunAt(i)
                IN  /\ RegIndex(f) <= regAtStart[n]
                    /\ n > 1 => RegIndex(f) > regAtStart[n - 1]
    /\ \A n \in DOMAIN results :
          Invoked(n) = SubSeq(registered,
                              (IF n = 1 THEN 0 ELSE regAtStart[n - 1]) + 1,
                              regAtStart[n])

\* C19 witness: a test was registered and run, then a second test was
\* registered, and the second call has invoked the second test alone.
C19_Witness ==
    /\ Len(results) = 2
    /\ regAtStart = <<1, 2>>
    /\ Invoked(1) = <<1>>
    /\ Invoked(2) = <<2>>
    /\ results[2].numTests = 1

\* C20: the sentinel is never treated as a test: no null test function is
\* invoked, the node being called is never the sentinel, the sentinel is in
\* none of the lists the runner walks and is not counted (the tests tallied
\* never exceed the tests pending), and neither head nor any node refers to
\* it, during the run and after it, when the sentinel is gone.
C20_SentinelNeverATest ==
    /\ pc # "crashed"
    /\ \A i \in DOMAIN execLog : execLog[i] # <<"begin", NullFn>>
    /\ pc \in {"body", "unwind", "tally"} =>
          newHead # LastTestAddr /\ objs[newHead].testfunc_ # NullFn
    /\ head # LastTestAddr /\ newHead # LastTestAddr /\ oldHead # LastTestAddr
    /\ \A a \in DOMAIN objs : objs[a].next_ # LastTestAddr
    /\ pc = "main" => LastTestAddr \notin DOMAIN objs
    /\ pc \in {"loop", "body", "unwind", "tally"} =>
          rc.numTests + Len(Chain(newHead, Fuel)) = Len(Pending(Len(regAtStart)))
    /\ \A n \in DOMAIN results :
          results[n].numTests = Cardinality({f \in 1..Len(registered) :
                                               BeginsOf(f) # {} /\
                                               \A i \in BeginsOf(f) : RunAt(i) = n})

\* C20 witness: a run over two tests has returned a count of two, the
\* sentinel is gone and head is null.
C20_Witness ==
    /\ pc = "main"
    /\ Len(results) = 1
    /\ results[1].numTests = 2
    /\ head = Null
    /\ DOMAIN objs = {1, 2}

=============================================================================
